---- MODULE Spec2Model ----
(***************************************************************************)
(* State machine of ImageCanvas (src/main.py): the loaded raster, the      *)
(* hand-drawn path, the animation index/flag, the QTimer, the camera       *)
(* footprint and the cropUpdated signal.  Every event handler of the       *)
(* widget is one action.                                                   *)
(*                                                                         *)
(* Conventions                                                             *)
(*  - Python lists are 0-based, TLA+ sequences 1-based: path_points[i] of  *)
(*    the code is path_points[i + 1] here; drone_index keeps the code's    *)
(*    0-based value.                                                       *)
(*  - Python floats that hold the footprint are fixed-point numbers with   *)
(*    denominator Denom: the stored integer v stands for v / Denom.        *)
(*  - An angle in degrees is represented by the reduced direction vector   *)
(*    it is the atan2 of: <<1, 0>> is 0.0, <<0, 1>> is 90.0, <<-1, 0>> is  *)
(*    180.0, <<0, -1>> is -90.0.                                           *)
(*  - A QPixmap produced by _emit_crop is represented by the values it is  *)
(*    rendered from (raster, center, angle, w, h).                         *)
(***************************************************************************)
EXTENDS Integers, Sequences, FiniteSets, TLC

\* ---------------------------------------------------------------- bounds
MaxW == 2
MaxLen == 3
Denom == 2
MaxFreq == 7

\* ------------------------------------------------------ program constants
DefaultRectPx == 80
MinRectPx == 4
MinCropDim == 2
MinIntervalMs == 1
MsPerSecond == 1000

\* ----------------------------------------------------------------- inputs
\* Rasters the file dialog can deliver: a wide one and a narrow, taller one
\* (a point of either can lie outside the other).  load_image never passes a
\* null pixmap on to setImage.
Pixmaps ==
  { [id |-> 1, width |-> MaxW, height |-> 1],
    [id |-> 2, width |-> 1, height |-> 2] }

NoImage == [id |-> 0, width |-> 0, height |-> 0]

\* Mouse positions: inside the rasters, right of and below them, and left of
\* and above them.
Positions ==
  [x : 0..MaxW, y : 0..1]
    \cup { [x |-> -1, y |-> 0], [x |-> 0, y |-> -1], [x |-> 0, y |-> 2] }

Buttons == {"LeftButton", "RightButton"}

\* Footprint arguments (fixed point): a negative and a zero value, and a
\* fractional value (between 4 and 5) with an odd one (5.0).
RectInputs ==
  { <<0 - Denom, 0>>,
    <<MinRectPx * Denom + 1, (MinRectPx + 1) * Denom>> }

IntervalInputs == {0, 2}

\* Rasters for the playback of a finished stroke: a small one, drawn on at
\* its corners, and one that is larger than the footprint, drawn on around
\* its middle.
SmallRaster == [id |-> 3, width |-> MaxW + 1, height |-> 2]

LargeRaster == [id |-> 4, width |-> 6, height |-> 6]

Rasters == Pixmaps \cup {SmallRaster, LargeRaster}

RasterOf(id) == CHOOSE r \in Rasters : r.id = id

StrokePoints(img) ==
  IF img = LargeRaster
    THEN [x : 2..3, y : 2..3]
    ELSE [x : {0, img.width - 1}, y : {0, img.height - 1}]

Strokes(img) == UNION { [1..n -> StrokePoints(img)] : n \in 1..MaxLen }

\* The text fields of the window as start_play parses them: altitude, rect
\* width and length (fixed point), zoom.
PlayInputs ==
  { [altitude |-> 0, rect_w_m |-> MinRectPx * Denom,
     rect_h_m |-> (MinRectPx + 1) * Denom, zoom |-> 1],
    [altitude |-> 1, rect_w_m |-> (MinRectPx + 1) * Denom,
     rect_h_m |-> MinRectPx * Denom + 1, zoom |-> -1],
    [altitude |-> 2, rect_w_m |-> 1, rect_h_m |-> 0, zoom |-> 1] }

\* Camera frequencies: an invalid one, the three up to MaxFreq, 1000 Hz and
\* one beyond it.
FreqInputs ==
  {0} \cup ((MaxFreq - 2)..MaxFreq) \cup {MsPerSecond, 2 * MsPerSecond}

\* ------------------------------------------------------------------ state
VARIABLES
  image,           \* self.image / self.image_qimage (NoImage is None)
  path_points,     \* self.path_points
  drawing,         \* self.drawing
  drone_index,     \* self.drone_index
  playing,         \* self.playing
  rect_width_px,   \* self.rect_width_px  (fixed point)
  rect_height_px,  \* self.rect_height_px (fixed point)
  timer_active,    \* self.timer.isActive()
  timer_interval,  \* self.timer.interval()
  emitted,         \* path indices of the cropUpdated emissions since the
                   \* last effective startAnimation
  crop,            \* payload of the last cropUpdated emission
  last,            \* the event handled last
  interacting      \* the user may still send events

canvas ==
  <<image, path_points, drawing, drone_index, playing, rect_width_px,
    rect_height_px, timer_active, timer_interval>>

signal == <<emitted, crop>>

vars == <<canvas, signal, last, interacting>>

\* ---------------------------------------------------------------- helpers
Max(a, b) == IF a >= b THEN a ELSE b
Min(a, b) == IF a <= b THEN a ELSE b
Abs(a) == IF a < 0 THEN 0 - a ELSE a

RECURSIVE Gcd(_, _)
Gcd(a, b) == IF b = 0 THEN a ELSE Gcd(b, a % b)

\* int() of a non-negative fixed-point float: truncation.
IntOf(v) == v \div Denom

QPointF(pos) == [x |-> pos.x, y |-> pos.y]

hasImage == image # NoImage

hasPath == Len(path_points) > 1

point_in_image(p) ==
  IF image = NoImage
    THEN FALSE
    ELSE 0 <= p.x /\ p.x < image.width /\ 0 <= p.y /\ p.y < image.height

ZeroAngle == <<1, 0>>

\* math.degrees(math.atan2(dy, dx)) for (dx, dy) # (0, 0).
Atan2Deg(dy, dx) ==
  LET g == Gcd(Abs(dx), Abs(dy))
  IN  <<dx \div g, dy \div g>>

\* _heading_angle_deg that takes the last segment backwards at the final index.
heading_angle_deg_reversed(pts, idx) ==
  IF Len(pts) < 2
    THEN ZeroAngle
    ELSE LET p1 == IF idx < Len(pts) - 1 THEN pts[idx + 1] ELSE pts[idx + 1]
             p2 == IF idx < Len(pts) - 1 THEN pts[idx + 2] ELSE pts[idx]
             dx == p2.x - p1.x
             dy == p2.y - p1.y
         IN  IF dx = 0 /\ dy = 0 THEN ZeroAngle ELSE Atan2Deg(dy, dx)

\* _heading_angle_deg that, on a zero-length segment, falls back to the
\* direction from the first path point.
heading_angle_deg_fallsBack(pts, idx) ==
  IF Len(pts) < 2
    THEN ZeroAngle
    ELSE LET p1 == IF idx < Len(pts) - 1 THEN pts[idx + 1] ELSE pts[idx]
             p2 == IF idx < Len(pts) - 1 THEN pts[idx + 2] ELSE pts[idx + 1]
             dx == p2.x - p1.x
             dy == p2.y - p1.y
         IN  IF dx = 0 /\ dy = 0
               THEN IF p2 = pts[1]
                      THEN ZeroAngle
                      ELSE Atan2Deg(p2.y - pts[1].y, p2.x - pts[1].x)
               ELSE Atan2Deg(dy, dx)

heading_angle_deg(pts, idx) ==
  IF Len(pts) < 2
    THEN ZeroAngle
    ELSE LET p1 == IF idx < Len(pts) - 1 THEN pts[idx + 1] ELSE pts[idx]
             p2 == IF idx < Len(pts) - 1 THEN pts[idx + 2] ELSE pts[idx + 1]
             dx == p2.x - p1.x
             dy == p2.y - p1.y
         IN  IF dx = 0 /\ dy = 0 THEN ZeroAngle ELSE Atan2Deg(dy, dx)

NoCrop == [image |-> 0, center |-> [x |-> 0, y |-> 0], angle_deg |-> ZeroAngle,
           w |-> 0, h |-> 0]

\* The pixmap _emit_crop renders: w x h pixels of raster img around center,
\* rotated by angle_deg.
Sample(img, center, angle_deg, rw, rh) ==
  [image |-> img.id, center |-> center, angle_deg |-> angle_deg,
   w |-> IntOf(rw), h |-> IntOf(rh)]

\* ---- the sampling loop of _emit_crop: which source pixel a destination
\* pixel (x, y) of a crop f shows.  With <<ux, uy>> the direction of the
\* angle and n2 = ux^2 + uy^2, cos = ux / sqrt(n2) and sin = uy / sqrt(n2);
\* all quantities are kept exact by carrying the factor 2 * sqrt(n2).

\* 2 * lx = 2 * (x - w / 2.0).
Local2(i, n) == 2 * i - n

\* 2 * sqrt(n2) * (cos_t * lx - sin_t * ly).
RotX2(a, lx2, ly2) == a[1] * lx2 - a[2] * ly2

\* 2 * sqrt(n2) * (sin_t * lx + cos_t * ly).
RotY2(a, lx2, ly2) == a[2] * lx2 + a[1] * ly2

Norm2(a) == a[1] * a[1] + a[2] * a[2]

\* l <= r * sqrt(n2).
LeqRoot(l, r, n2) ==
  IF r >= 0
    THEN l <= 0 \/ l * l <= r * r * n2
    ELSE l < 0 /\ l * l >= r * r * n2

\* |g2 / (2 * sqrt(n2)) - k| <= 1/2.
Near(g2, k, n2) == LeqRoot(g2 * g2 + 4 * k * k * n2 - n2, 4 * k * g2, n2)

\* round() that sends a tie to the neighbour farther from zero.
RoundCoord_halfAway(c, g2, a) ==
  LET n2 == Norm2(a)
      m == (Abs(g2) \div 2) + 1
      near == { c + k : k \in { j \in (0 - m)..m : Near(g2, j, n2) } }
  IN  IF Cardinality(near) = 1 \/ a # ZeroAngle
        THEN near
        ELSE { v \in near : \A u \in near : Abs(v) >= Abs(u) }

\* int(round(c + g2 / (2 * sqrt(n2)))): the values the code can obtain.
\* Python 3 rounds an exact tie to the even neighbour.  cos and sin are exact
\* only for the angle 0.0 (1.0 and 0.0); for any other angle they carry a
\* floating-point error (math.cos(math.radians(90.0)) is 6.1e-17), which
\* decides a coordinate that is a tie in exact arithmetic either way.
RoundCoord(c, g2, a) ==
  LET n2 == Norm2(a)
      m == (Abs(g2) \div 2) + 1
      near == { c + k : k \in { j \in (0 - m)..m : Near(g2, j, n2) } }
  IN  IF Cardinality(near) = 1 \/ a # ZeroAngle
        THEN near
        ELSE { v \in near : v % 2 = 0 }

\* (ix, iy) of destination pixel (x, y).
SourceCoords(f, x, y) ==
  LET lx2 == Local2(x, f.w)
      ly2 == Local2(y, f.h)
  IN  RoundCoord(f.center.x, RotX2(f.angle_deg, lx2, ly2), f.angle_deg)
        \X RoundCoord(f.center.y, RotY2(f.angle_deg, lx2, ly2), f.angle_deg)

\* self.image_qimage.pixel(ix, iy): every raster pixel has a colour of its own.
ImagePixel(id, ix, iy) == <<id, ix, iy>>

\* QColor(0, 0, 0), the fill of the crop.
Black == <<0, 0, 0>>

\* Bounds test that admits the column and the row just past the raster.
FramePixels_inclusiveBounds(f, x, y) ==
  LET img == RasterOf(f.image)
  IN  { IF 0 <= p[1] /\ p[1] <= img.width /\ 0 <= p[2] /\ p[2] <= img.height
          THEN ImagePixel(f.image, p[1], p[2])
          ELSE Black : p \in SourceCoords(f, x, y) }

\* The colours destination pixel (x, y) of crop f can have.
FramePixels(f, x, y) ==
  LET img == RasterOf(f.image)
  IN  { IF 0 <= p[1] /\ p[1] < img.width /\ 0 <= p[2] /\ p[2] < img.height
          THEN ImagePixel(f.image, p[1], p[2])
          ELSE Black : p \in SourceCoords(f, x, y) }

\* self._emit_crop() called when self.drone_index holds idx0 and the
\* emissions so far are log.
emit_crop(idx0, log) ==
  IF ~hasImage \/ ~hasPath
    THEN emitted' = log /\ crop' = crop
    ELSE LET idx == Max(0, Min(idx0, Len(path_points) - 1))
             center == path_points[idx + 1]
             angle_deg == heading_angle_deg(path_points, idx)
         IN  IF IntOf(rect_width_px) < MinCropDim
                \/ IntOf(rect_height_px) < MinCropDim
               THEN emitted' = log /\ crop' = crop
               ELSE /\ crop' = Sample(image, center, angle_deg,
                                      rect_width_px, rect_height_px)
                    /\ emitted' = Append(log, idx)

\* ------------------------------------------------------------------- Init
Init ==
  /\ image = NoImage
  /\ path_points = <<>>
  /\ drawing = FALSE
  /\ drone_index = 0
  /\ playing = FALSE
  /\ rect_width_px = DefaultRectPx * Denom
  /\ rect_height_px = DefaultRectPx * Denom
  /\ timer_active = FALSE
  /\ timer_interval = 0
  /\ emitted = <<>>
  /\ crop = NoCrop
  /\ last = "init"
  /\ interacting = TRUE

\* --------------------------------------------------------------- handlers
\* setImage that keeps the animation index.
setImage_keepsIndex(pixmap) ==
  /\ image' = pixmap
  /\ path_points' = <<>>
  /\ drawing' = FALSE
  /\ playing' = FALSE
  /\ UNCHANGED <<drone_index, rect_width_px, rect_height_px, timer_active,
                 timer_interval>>
  /\ UNCHANGED signal
  /\ last' = "setImage"

\* setImage that keeps the path drawn on the previous raster.
setImage_keepsPath(pixmap) ==
  /\ image' = pixmap
  /\ drawing' = FALSE
  /\ playing' = FALSE
  /\ drone_index' = 0
  /\ UNCHANGED <<path_points, rect_width_px, rect_height_px, timer_active,
                 timer_interval>>
  /\ UNCHANGED signal
  /\ last' = "setImage"

setImage(pixmap) ==
  /\ image' = pixmap
  /\ path_points' = <<>>
  /\ drawing' = FALSE
  /\ playing' = FALSE
  /\ drone_index' = 0
  /\ UNCHANGED <<rect_width_px, rect_height_px, timer_active, timer_interval>>
  /\ UNCHANGED signal
  /\ last' = "setImage"

\* setRectangleSizePixels that stores its arguments as they come.
setRectangleSizePixels_noClamp(w_px, h_px) ==
  /\ rect_width_px' = w_px
  /\ rect_height_px' = h_px
  /\ UNCHANGED <<image, path_points, drawing, drone_index, playing,
                 timer_active, timer_interval>>
  /\ UNCHANGED signal
  /\ last' = "setRectangleSizePixels"

setRectangleSizePixels(w_px, h_px) ==
  /\ rect_width_px' = Max(MinRectPx * Denom, w_px)
  /\ rect_height_px' = Max(MinRectPx * Denom, h_px)
  /\ UNCHANGED <<image, path_points, drawing, drone_index, playing,
                 timer_active, timer_interval>>
  /\ UNCHANGED signal
  /\ last' = "setRectangleSizePixels"

\* startAnimation that renders the first crop before it resets the index.
startAnimation_emitsFirst(interval_ms) ==
  /\ last' = "startAnimation"
  /\ IF ~hasImage \/ ~hasPath
       THEN UNCHANGED <<canvas, signal>>
       ELSE /\ emit_crop(drone_index, <<>>)
            /\ drone_index' = 0
            /\ playing' = TRUE
            /\ timer_active' = TRUE
            /\ timer_interval' = Max(MinIntervalMs, interval_ms)
            /\ UNCHANGED <<image, path_points, drawing, rect_width_px,
                           rect_height_px>>

\* startAnimation that only checks for a raster.
startAnimation_noPathCheck(interval_ms) ==
  /\ last' = "startAnimation"
  /\ IF ~hasImage
       THEN UNCHANGED <<canvas, signal>>
       ELSE /\ drone_index' = 0
            /\ playing' = TRUE
            /\ emit_crop(0, <<>>)
            /\ timer_active' = TRUE
            /\ timer_interval' = Max(MinIntervalMs, interval_ms)
            /\ UNCHANGED <<image, path_points, drawing, rect_width_px,
                           rect_height_px>>

startAnimation(interval_ms) ==
  /\ last' = "startAnimation"
  /\ IF ~hasImage \/ ~hasPath
       THEN UNCHANGED <<canvas, signal>>
       ELSE /\ drone_index' = 0
            /\ playing' = TRUE
            /\ emit_crop(0, <<>>)
            /\ timer_active' = TRUE
            /\ timer_interval' = Max(MinIntervalMs, interval_ms)
            /\ UNCHANGED <<image, path_points, drawing, rect_width_px,
                           rect_height_px>>

\* stopAnimation that clears the flag and leaves the timer running.
stopAnimation_flagOnly ==
  /\ playing' = FALSE
  /\ UNCHANGED <<image, path_points, drawing, drone_index, rect_width_px,
                 rect_height_px, timer_active, timer_interval>>
  /\ UNCHANGED signal
  /\ last' = "stopAnimation"

stopAnimation ==
  /\ timer_active' = FALSE
  /\ playing' = FALSE
  /\ UNCHANGED <<image, path_points, drawing, drone_index, rect_width_px,
                 rect_height_px, timer_interval>>
  /\ UNCHANGED signal
  /\ last' = "stopAnimation"

\* mousePressEvent that starts the new path and leaves playback running.
mousePressEvent_keepsPlaying(button, pos) ==
  /\ last' = "mousePressEvent"
  /\ IF ~hasImage
       THEN UNCHANGED <<canvas, signal>>
       ELSE IF button = "LeftButton" /\ point_in_image(pos)
         THEN /\ path_points' = <<QPointF(pos)>>
              /\ drawing' = TRUE
              /\ drone_index' = 0
              /\ UNCHANGED <<image, playing, rect_width_px, rect_height_px,
                             timer_active, timer_interval>>
              /\ UNCHANGED signal
         ELSE UNCHANGED <<canvas, signal>>

\* mousePressEvent that keeps the animation index.
mousePressEvent_keepsIndex(button, pos) ==
  /\ last' = "mousePressEvent"
  /\ IF ~hasImage
       THEN UNCHANGED <<canvas, signal>>
       ELSE IF button = "LeftButton" /\ point_in_image(pos)
         THEN /\ path_points' = <<QPointF(pos)>>
              /\ drawing' = TRUE
              /\ playing' = FALSE
              /\ timer_active' = FALSE
              /\ UNCHANGED <<image, drone_index, rect_width_px,
                             rect_height_px, timer_interval>>
              /\ UNCHANGED signal
         ELSE UNCHANGED <<canvas, signal>>

\* mousePressEvent that leaves the timer running.
mousePressEvent_keepsTimer(button, pos) ==
  /\ last' = "mousePressEvent"
  /\ IF ~hasImage
       THEN UNCHANGED <<canvas, signal>>
       ELSE IF button = "LeftButton" /\ point_in_image(pos)
         THEN /\ path_points' = <<QPointF(pos)>>
              /\ drawing' = TRUE
              /\ drone_index' = 0
              /\ playing' = FALSE
              /\ UNCHANGED <<image, rect_width_px, rect_height_px,
                             timer_active, timer_interval>>
              /\ UNCHANGED signal
         ELSE UNCHANGED <<canvas, signal>>

mousePressEvent(button, pos) ==
  /\ last' = "mousePressEvent"
  /\ IF ~hasImage
       THEN UNCHANGED <<canvas, signal>>
       ELSE IF button = "LeftButton" /\ point_in_image(pos)
         THEN /\ path_points' = <<QPointF(pos)>>
              /\ drawing' = TRUE
              /\ drone_index' = 0
              /\ playing' = FALSE
              /\ timer_active' = FALSE
              /\ UNCHANGED <<image, rect_width_px, rect_height_px,
                             timer_interval>>
              /\ UNCHANGED signal
         ELSE UNCHANGED <<canvas, signal>>

\* mouseMoveEvent that does not look at the drawing flag.
mouseMoveEvent_alwaysAppends(pos) ==
  /\ Len(path_points) < MaxLen \/ ~point_in_image(pos)
  /\ last' = "mouseMoveEvent"
  /\ IF ~hasImage
       THEN UNCHANGED <<canvas, signal>>
       ELSE IF point_in_image(pos)
         THEN /\ path_points' = Append(path_points, QPointF(pos))
              /\ UNCHANGED <<image, drawing, drone_index, playing,
                             rect_width_px, rect_height_px, timer_active,
                             timer_interval>>
              /\ UNCHANGED signal
         ELSE UNCHANGED <<canvas, signal>>

\* The stroke is cut off at MaxLen points.
mouseMoveEvent(pos) ==
  /\ Len(path_points) < MaxLen \/ ~drawing \/ ~point_in_image(pos)
  /\ last' = "mouseMoveEvent"
  /\ IF ~drawing \/ ~hasImage
       THEN UNCHANGED <<canvas, signal>>
       ELSE IF point_in_image(pos)
         THEN /\ path_points' = Append(path_points, QPointF(pos))
              /\ UNCHANGED <<image, drawing, drone_index, playing,
                             rect_width_px, rect_height_px, timer_active,
                             timer_interval>>
              /\ UNCHANGED signal
         ELSE UNCHANGED <<canvas, signal>>

mouseReleaseEvent(button) ==
  /\ last' = "mouseReleaseEvent"
  /\ drawing' = (IF button = "LeftButton" THEN FALSE ELSE drawing)
  /\ UNCHANGED <<image, path_points, drone_index, playing, rect_width_px,
                 rect_height_px, timer_active, timer_interval>>
  /\ UNCHANGED signal

\* _on_timer whose end test is off by one.
on_timer_offByOne ==
  /\ timer_active
  /\ last' = "on_timer"
  /\ IF ~hasPath
       THEN /\ timer_active' = FALSE
            /\ playing' = FALSE
            /\ UNCHANGED <<image, path_points, drawing, drone_index,
                           rect_width_px, rect_height_px, timer_interval>>
            /\ UNCHANGED signal
       ELSE IF drone_index < Len(path_points)
         THEN /\ drone_index' = drone_index + 1
              /\ emit_crop(drone_index + 1, emitted)
              /\ UNCHANGED <<image, path_points, drawing, playing,
                             rect_width_px, rect_height_px, timer_active,
                             timer_interval>>
         ELSE /\ timer_active' = FALSE
              /\ playing' = FALSE
              /\ UNCHANGED <<image, path_points, drawing, drone_index,
                             rect_width_px, rect_height_px, timer_interval>>
              /\ UNCHANGED signal

\* _on_timer that idles at the end of the path.
on_timer_noStop ==
  /\ timer_active
  /\ last' = "on_timer"
  /\ IF ~hasPath
       THEN /\ timer_active' = FALSE
            /\ playing' = FALSE
            /\ UNCHANGED <<image, path_points, drawing, drone_index,
                           rect_width_px, rect_height_px, timer_interval>>
            /\ UNCHANGED signal
       ELSE IF drone_index < Len(path_points) - 1
         THEN /\ drone_index' = drone_index + 1
              /\ emit_crop(drone_index + 1, emitted)
              /\ UNCHANGED <<image, path_points, drawing, playing,
                             rect_width_px, rect_height_px, timer_active,
                             timer_interval>>
         ELSE UNCHANGED <<canvas, signal>>

\* _on_timer that renders the crop before it advances the index.
on_timer_emitsBeforeStep ==
  /\ timer_active
  /\ last' = "on_timer"
  /\ IF ~hasPath
       THEN /\ timer_active' = FALSE
            /\ playing' = FALSE
            /\ UNCHANGED <<image, path_points, drawing, drone_index,
                           rect_width_px, rect_height_px, timer_interval>>
            /\ UNCHANGED signal
       ELSE IF drone_index < Len(path_points) - 1
         THEN /\ emit_crop(drone_index, emitted)
              /\ drone_index' = drone_index + 1
              /\ UNCHANGED <<image, path_points, drawing, playing,
                             rect_width_px, rect_height_px, timer_active,
                             timer_interval>>
         ELSE /\ timer_active' = FALSE
              /\ playing' = FALSE
              /\ UNCHANGED <<image, path_points, drawing, drone_index,
                             rect_width_px, rect_height_px, timer_interval>>
              /\ UNCHANGED signal

\* self.timer.timeout: fires only while the timer is active.
on_timer ==
  /\ timer_active
  /\ last' = "on_timer"
  /\ IF ~hasPath
       THEN /\ timer_active' = FALSE
            /\ playing' = FALSE
            /\ UNCHANGED <<image, path_points, drawing, drone_index,
                           rect_width_px, rect_height_px, timer_interval>>
            /\ UNCHANGED signal
       ELSE IF drone_index < Len(path_points) - 1
         THEN /\ drone_index' = drone_index + 1
              /\ emit_crop(drone_index + 1, emitted)
              /\ UNCHANGED <<image, path_points, drawing, playing,
                             rect_width_px, rect_height_px, timer_active,
                             timer_interval>>
         ELSE /\ timer_active' = FALSE
              /\ playing' = FALSE
              /\ UNCHANGED <<image, path_points, drawing, drone_index,
                             rect_width_px, rect_height_px, timer_interval>>
              /\ UNCHANGED signal

\* int(round(MsPerSecond / freq)) for an integer freq > 0.
RoundedInterval(freq) ==
  LET q == MsPerSecond \div freq
      r == MsPerSecond % freq
  IN  IF 2 * r < freq THEN q
      ELSE IF 2 * r > freq THEN q + 1
      ELSE IF q % 2 = 0 THEN q ELSE q + 1

\* start_play that rounds the interval to the nearest millisecond.
start_play_rounds(in, freq) ==
  /\ last' = "start_play"
  /\ IF ~hasImage \/ ~hasPath \/ freq <= 0
       THEN UNCHANGED <<canvas, signal>>
       ELSE LET altitude == IF in.altitude <= 0 THEN 1 ELSE in.altitude
                zoom == IF in.zoom <= 0 THEN 1 ELSE in.zoom
                px_per_meter == altitude * zoom
                interval_ms == RoundedInterval(freq)
            IN  /\ rect_width_px' = Max(MinRectPx * Denom,
                                        in.rect_w_m * px_per_meter)
                /\ rect_height_px' = Max(MinRectPx * Denom,
                                         in.rect_h_m * px_per_meter)
                /\ drone_index' = 0
                /\ playing' = TRUE
                /\ IF IntOf(rect_width_px') < MinCropDim
                      \/ IntOf(rect_height_px') < MinCropDim
                     THEN emitted' = <<>> /\ crop' = crop
                     ELSE /\ crop' = Sample(image, path_points[1],
                                            heading_angle_deg(path_points, 0),
                                            rect_width_px', rect_height_px')
                          /\ emitted' = <<0>>
                /\ timer_active' = TRUE
                /\ timer_interval' = Max(MinIntervalMs, interval_ms)
                /\ UNCHANGED <<image, path_points, drawing>>

\* MainWindow.start_play: setRectangleSizePixels followed by startAnimation.
start_play(in, freq) ==
  /\ last' = "start_play"
  /\ IF ~hasImage \/ ~hasPath \/ freq <= 0
       THEN UNCHANGED <<canvas, signal>>
       ELSE LET altitude == IF in.altitude <= 0 THEN 1 ELSE in.altitude
                zoom == IF in.zoom <= 0 THEN 1 ELSE in.zoom
                px_per_meter == altitude * zoom
                interval_ms == MsPerSecond \div freq
            IN  /\ rect_width_px' = Max(MinRectPx * Denom,
                                        in.rect_w_m * px_per_meter)
                /\ rect_height_px' = Max(MinRectPx * Denom,
                                         in.rect_h_m * px_per_meter)
                /\ drone_index' = 0
                /\ playing' = TRUE
                /\ IF IntOf(rect_width_px') < MinCropDim
                      \/ IntOf(rect_height_px') < MinCropDim
                     THEN emitted' = <<>> /\ crop' = crop
                     ELSE /\ crop' = Sample(image, path_points[1],
                                            heading_angle_deg(path_points, 0),
                                            rect_width_px', rect_height_px')
                          /\ emitted' = <<0>>
                /\ timer_active' = TRUE
                /\ timer_interval' = Max(MinIntervalMs, interval_ms)
                /\ UNCHANGED <<image, path_points, drawing>>

\* ------------------------------------------------------------ environment
LoadImage == \E pixmap \in Pixmaps : setImage(pixmap)

SetRect == \E r \in RectInputs : setRectangleSizePixels(r[1], r[2])

Start == \E interval_ms \in IntervalInputs : startAnimation(interval_ms)

Stop == stopAnimation

Press == \E button \in Buttons, pos \in Positions : mousePressEvent(button, pos)

Move == \E pos \in Positions : mouseMoveEvent(pos)

Release == \E button \in Buttons : mouseReleaseEvent(button)

Tick == on_timer

UserEvent == LoadImage \/ SetRect \/ Start \/ Stop \/ Press \/ Move \/ Release

Next == (UserEvent \/ Tick) /\ UNCHANGED interacting

Spec == Init /\ [][Next]_vars

\* The user walks away at some point; an active QTimer keeps firing.
UserLeaves ==
  /\ interacting
  /\ interacting' = FALSE
  /\ UNCHANGED <<canvas, signal, last>>

NextLive ==
  \/ interacting /\ UserEvent /\ UNCHANGED interacting
  \/ Tick /\ UNCHANGED interacting
  \/ UserLeaves

SpecLive == Init /\ [][NextLive]_vars /\ WF_vars(Tick /\ UNCHANGED interacting)

\* ---- playback of a finished stroke through the Play button
\* The state after a raster was loaded and a stroke drawn and released.
InitPlayback ==
  /\ image \in {SmallRaster, LargeRaster}
  /\ path_points \in Strokes(image)
  /\ drawing = FALSE
  /\ drone_index = 0
  /\ playing = FALSE
  /\ rect_width_px = DefaultRectPx * Denom
  /\ rect_height_px = DefaultRectPx * Denom
  /\ timer_active = FALSE
  /\ timer_interval = 0
  /\ emitted = <<>>
  /\ crop = NoCrop
  /\ last = "mouseReleaseEvent"
  /\ interacting = TRUE

Play == \E in \in PlayInputs, freq \in FreqInputs : start_play(in, freq)

NextPlayback == (Play \/ Tick) /\ UNCHANGED interacting

SpecPlayback == InitPlayback /\ [][NextPlayback]_vars

\* ================================================================= claims

\* C1: in every reachable state, while playing is true the index lies inside
\* the path: 0 <= drone_index < len(path_points).
C1_IndexInPath ==
  playing => (0 <= drone_index /\ drone_index < Len(path_points))

\* Playback started during a stroke has advanced while the stroke grew to
\* its full length.
C1_Witness ==
  /\ playing
  /\ drawing
  /\ drone_index >= 1
  /\ Len(path_points) = MaxLen
  /\ last = "mouseMoveEvent"

\* C2: in every reachable state, playing implies that a raster is loaded and
\* that the path has at least 2 points.
C2_PlayingHasPath ==
  playing => (hasImage /\ Len(path_points) >= 2)

\* A press has begun a new one-point path after playback had been started.
C2_Witness ==
  /\ last = "mousePressEvent"
  /\ Len(path_points) = 1
  /\ drawing
  /\ emitted # <<>>
  /\ ~playing

\* C3: a tick that finds drone_index = len(path_points) - 1 stops playback
\* (playing false, timer inactive) without emitting a frame and without
\* moving the index; and from every playing state, once the user sends no
\* further events and the ticks keep firing, playback eventually is stopped
\* with drone_index = len(path_points) - 1.
C3_StopsByItself ==
  /\ [][(last' = "on_timer" /\ UNCHANGED interacting
           /\ drone_index = Len(path_points) - 1)
          => /\ ~playing'
             /\ ~timer_active'
             /\ drone_index' = drone_index
             /\ UNCHANGED signal]_vars
  /\ (playing /\ ~interacting)
       ~> (~playing /\ ~timer_active /\ drone_index = Len(path_points) - 1)

\* With the user gone, the timer has walked the whole path (one frame per
\* index) and its last tick has stopped playback.
C3_Witness ==
  /\ ~interacting
  /\ last = "on_timer"
  /\ ~playing
  /\ ~timer_active
  /\ Len(path_points) = MaxLen
  /\ drone_index = Len(path_points) - 1
  /\ Len(emitted) = Len(path_points)

\* C4: startAnimation called with a raster and hasPath() true sets
\* drone_index to 0 and playing to true, starts the timer, and emits exactly
\* one frame, for index 0, in the same step (before any tick); the frame is
\* the sample of the raster at path point 0 with the heading at index 0 and
\* the current footprint.
C4_StartEmitsFirstFrame ==
  [][(last' = "startAnimation" /\ hasImage /\ hasPath)
       => /\ drone_index' = 0
          /\ playing'
          /\ timer_active'
          /\ emitted' = <<0>>
          /\ crop' = Sample(image, path_points[1],
                            heading_angle_deg(path_points, 0),
                            rect_width_px, rect_height_px)
          /\ UNCHANGED <<image, path_points, rect_width_px, rect_height_px>>]_vars

\* A start has emitted its one frame at a point whose heading is not the
\* default one, with a footprint set by the caller.
C4_Witness ==
  /\ last = "startAnimation"
  /\ playing
  /\ drone_index = 0
  /\ emitted = <<0>>
  /\ crop.center = path_points[1]
  /\ crop.angle_deg # ZeroAngle
  /\ crop.w = MinRectPx
  /\ crop.h = MinRectPx + 1

\* C5: startAnimation called without a raster or with a path of at most one
\* point changes nothing (path, drawing, index, playing, timer, footprint)
\* and emits no frame.
C5_StartNoOp ==
  [][(last' = "startAnimation" /\ (~hasImage \/ Len(path_points) <= 1))
       => UNCHANGED <<canvas, signal>>]_vars

\* A start was requested on a one-point path that is still being drawn.
C5_Witness ==
  /\ last = "startAnimation"
  /\ hasImage
  /\ Len(path_points) = 1
  /\ drawing
  /\ ~playing
  /\ ~timer_active

\* C6: stopAnimation can be taken in every reachable state, leaves playing
\* false and the timer inactive, and a second stopAnimation right after it
\* changes nothing.
C6_StopIdempotent ==
  /\ [](ENABLED (Stop /\ UNCHANGED interacting))
  /\ [][last' = "stopAnimation" => (~playing' /\ ~timer_active')]_vars
  /\ [][(last = "stopAnimation" /\ last' = "stopAnimation")
          => UNCHANGED <<canvas, signal>>]_vars

\* Playback was stopped in the middle of the path.
C6_Witness ==
  /\ last = "stopAnimation"
  /\ ~playing
  /\ ~timer_active
  /\ Len(path_points) = MaxLen
  /\ drone_index = 1
  /\ emitted = <<0, 1>>

\* C7: right after setImage, from any state, a raster is loaded, the path is
\* empty, drawing is false, playing is false and drone_index is 0.
C7_LoadResets ==
  last = "setImage"
    => /\ image \in Pixmaps
       /\ path_points = <<>>
       /\ ~drawing
       /\ ~playing
       /\ drone_index = 0

\* A raster was loaded in the middle of a playback (the timer of that
\* playback is still armed) that had already left index 0.
C7_Witness ==
  /\ last = "setImage"
  /\ timer_active
  /\ Len(emitted) >= 2
  /\ crop.image # image.id

\* C8: a left press at a point inside the raster replaces the path with
\* exactly that point, turns drawing on, resets drone_index to 0, clears
\* playing and stops the timer, so that hasPath() is false afterwards.
C8_BeginPath ==
  [][\A pos \in Positions :
       (/\ last' = "mousePressEvent"
        /\ point_in_image(pos)
        /\ mousePressEvent("LeftButton", pos))
         => /\ path_points' = <<QPointF(pos)>>
            /\ drawing'
            /\ drone_index' = 0
            /\ ~playing'
            /\ ~timer_active'
            /\ ~(Len(path_points') > 1)]_vars

\* A press has begun a new path after a playback had advanced along the
\* previous one.
C8_Witness ==
  /\ last = "mousePressEvent"
  /\ Len(path_points) = 1
  /\ drawing
  /\ drone_index = 0
  /\ Len(emitted) >= 2
  /\ ~playing
  /\ ~timer_active

\* C9: a move appends its point to the end of the path only while drawing
\* is true, and drawing is true only between a begin-path press and the next
\* left release or image load; a move while drawing is false changes
\* nothing; an accepted append changes nothing but the path, whose existing
\* points stay as they are.
C9_AppendOnlyWhileDrawing ==
  /\ [][(last' = "mouseMoveEvent" /\ ~drawing)
          => UNCHANGED <<canvas, signal>>]_vars
  /\ [][last' = "mouseMoveEvent"
          => \/ UNCHANGED <<canvas, signal>>
             \/ /\ drawing
                /\ \E pos \in Positions :
                     /\ point_in_image(pos)
                     /\ path_points' = Append(path_points, QPointF(pos))
                /\ UNCHANGED <<image, drawing, drone_index, playing,
                               rect_width_px, rect_height_px, timer_active,
                               timer_interval, signal>>]_vars
  /\ [][(drawing' /\ ~drawing) => last' = "mousePressEvent"]_vars
  /\ [][(last' = "setImage" \/ mouseReleaseEvent("LeftButton"))
          => ~drawing']_vars

\* A move has extended the stroke to its full length.
C9_Witness ==
  /\ last = "mouseMoveEvent"
  /\ drawing
  /\ Len(path_points) = MaxLen
  /\ path_points[MaxLen] # path_points[1]

\* C10: every point of the path lies inside the loaded raster, in every
\* reachable state; a press or a move at a point outside the raster changes
\* nothing.
C10_PointsInRaster ==
  /\ [](\A i \in 1..Len(path_points) : point_in_image(path_points[i]))
  /\ [][\/ UNCHANGED <<canvas, signal>>
        \/ \A pos \in Positions :
             ~point_in_image(pos)
               => /\ ~mouseMoveEvent(pos)
                  /\ \A button \in Buttons : ~mousePressEvent(button, pos)]_vars

\* A stroke is being drawn on a raster that was loaded after a crop had been
\* emitted at a point lying outside it.
C10_Witness ==
  /\ hasImage
  /\ crop # NoCrop
  /\ crop.image # image.id
  /\ ~point_in_image(crop.center)
  /\ Len(path_points) >= 2
  /\ drawing

\* C11: on a path of length n >= 2 whose last two points differ, the heading
\* at index n-1 is the direction from point n-2 to point n-1 and equals the
\* heading at index n-2; at every index i < n-1 the heading is the direction
\* from point i to point i+1; the crop of a playback carries the heading of
\* its index.
C11_EndHeadingLooksBack ==
  LET n == Len(path_points)
  IN  /\ (n >= 2 /\ path_points[n - 1] # path_points[n])
           => /\ heading_angle_deg(path_points, n - 1)
                   = heading_angle_deg(path_points, n - 2)
              /\ heading_angle_deg(path_points, n - 1)
                   = Atan2Deg(path_points[n].y - path_points[n - 1].y,
                              path_points[n].x - path_points[n - 1].x)
      /\ \A i \in 0..(n - 2) :
           path_points[i + 1] # path_points[i + 2]
             => heading_angle_deg(path_points, i)
                  = Atan2Deg(path_points[i + 2].y - path_points[i + 1].y,
                             path_points[i + 2].x - path_points[i + 1].x)
      /\ emitted # <<>>
           => crop.angle_deg = heading_angle_deg(path_points, drone_index)

\* A playback has reached the final index of a path that turns at its middle
\* point: the crop has the heading of the last segment.
C11_Witness ==
  LET n == Len(path_points)
  IN  /\ n >= 3
      /\ last = "on_timer"
      /\ playing
      /\ drone_index = n - 1
      /\ path_points[n - 1] # path_points[n]
      /\ path_points[n - 2] # path_points[n - 1]
      /\ crop.angle_deg = heading_angle_deg(path_points, n - 2)
      /\ crop.angle_deg # heading_angle_deg(path_points, n - 3)

\* C12: the heading is 0.0 at every index whose segment has two identical
\* end points, and on a path of fewer than 2 points; a playback that comes to
\* such an index emits its frame with heading 0.0 and goes on playing.
C12_ZeroSegmentHeading ==
  /\ [](LET n == Len(path_points)
        IN  \A i \in 0..(n - 1) :
              \/ /\ n < 2
                 /\ heading_angle_deg(path_points, i) = ZeroAngle
              \/ /\ n >= 2
                 /\ LET j == IF i < n - 1 THEN i ELSE i - 1
                    IN  path_points[j + 1] = path_points[j + 2]
                          => heading_angle_deg(path_points, i) = ZeroAngle)
  /\ [][(/\ last' = "on_timer"
         /\ drone_index' = drone_index + 1
         /\ LET j == IF drone_index' < Len(path_points) - 1
                       THEN drone_index' ELSE drone_index' - 1
            IN  path_points[j + 1] = path_points[j + 2])
          => /\ crop'.angle_deg = ZeroAngle
             /\ emitted' = Append(emitted, drone_index')
             /\ playing'
             /\ timer_active']_vars

\* A playback that began with another heading has stepped onto a repeated
\* point and emitted a frame with heading 0.0.
C12_Witness ==
  /\ last = "on_timer"
  /\ playing
  /\ Len(path_points) >= 3
  /\ drone_index = 1
  /\ path_points[2] = path_points[3]
  /\ heading_angle_deg(path_points, 0) # ZeroAngle
  /\ crop.angle_deg = ZeroAngle
  /\ emitted = <<0, 1>>

\* C13: in a crop with an axis-aligned heading every destination pixel
\* (x, y) shows the raster pixel at a nearest integer of the source coordinate
\* center + R(theta) * (x - w/2, y - h/2) when that lies inside the raster,
\* and black otherwise.
C13_PixelsFromRoundedSource ==
  (crop # NoCrop /\ crop.angle_deg \in {<<1, 0>>, <<0, 1>>, <<-1, 0>>, <<0, -1>>})
    => LET img == RasterOf(crop.image)
           cos_t == crop.angle_deg[1]
           sin_t == crop.angle_deg[2]
       IN  \A x \in 0..(crop.w - 1), y \in 0..(crop.h - 1) :
             LET gx2 == 2 * crop.center.x + cos_t * (2 * x - crop.w)
                          - sin_t * (2 * y - crop.h)
                 gy2 == 2 * crop.center.y + sin_t * (2 * x - crop.w)
                          + cos_t * (2 * y - crop.h)
             IN  /\ FramePixels(crop, x, y) # {}
                 /\ \A c \in FramePixels(crop, x, y) :
                      \E ix \in {gx2 \div 2, (gx2 + 1) \div 2},
                         iy \in {gy2 \div 2, (gy2 + 1) \div 2} :
                        c = IF /\ 0 <= ix /\ ix < img.width
                               /\ 0 <= iy /\ iy < img.height
                              THEN <<crop.image, ix, iy>>
                              ELSE Black

\* A crop at 90 degrees on the small raster shows raster pixels and black
\* ones.
C13_Witness ==
  /\ crop # NoCrop
  /\ crop.image = SmallRaster.id
  /\ crop.angle_deg = <<0, 1>>
  /\ \E x \in 0..(crop.w - 1), y \in 0..(crop.h - 1) :
       FramePixels(crop, x, y) = {Black}
  /\ \E x \in 0..(crop.w - 1), y \in 0..(crop.h - 1) :
       Black \notin FramePixels(crop, x, y)

\* C14: a crop with heading 0 is an axis-aligned crop: for some integer
\* offsets (ox, oy) every destination pixel (x, y) shows raster pixel
\* (x + ox, y + oy) when that lies inside the raster and black otherwise.
C14_AxisAlignedCrop ==
  (crop # NoCrop /\ crop.angle_deg = ZeroAngle)
    => LET img == RasterOf(crop.image)
       IN  \E ox \in (0 - crop.w - 1)..(img.width + 1),
              oy \in (0 - crop.h - 1)..(img.height + 1) :
             \A x \in 0..(crop.w - 1), y \in 0..(crop.h - 1) :
               FramePixels(crop, x, y)
                 = { IF /\ 0 <= x + ox /\ x + ox < img.width
                        /\ 0 <= y + oy /\ y + oy < img.height
                       THEN <<crop.image, x + ox, y + oy>>
                       ELSE Black }

C17_IntervalRounded ==
  [][last' = "start_play"
       => \A in \in PlayInputs, freq \in FreqInputs :
            (freq > 0 /\ hasImage /\ hasPath /\ start_play(in, freq))
              => /\ timer_interval' = Max(1, RoundedInterval(freq))
                 /\ timer_interval' >= 1]_vars

\* C17 amended: for every frequency > 0 the timer period set by the Play
\* button is max(1, int(1000 / frequency)), the quotient truncated; it is
\* never zero or negative.
C17_IntervalTruncated ==
  [][last' = "start_play"
       => \A in \in PlayInputs, freq \in FreqInputs :
            (freq > 0 /\ hasImage /\ hasPath /\ start_play(in, freq))
              => /\ timer_active'
                 /\ timer_interval' = Max(1, MsPerSecond \div freq)
                 /\ timer_interval' >= 1]_vars

\* The Play button has started the timer with a period whose exact value
\* has a fractional part above one half.
C17_Witness ==
  /\ last = "start_play"
  /\ playing
  /\ timer_active
  /\ \E freq \in 1..MaxFreq :
       /\ timer_interval = MsPerSecond \div freq
       /\ 2 * (MsPerSecond % freq) > freq
       /\ timer_interval # RoundedInterval(freq)

\* C18: between a startAnimation and the next start, press or load the
\* frames are emitted for the indices 0, 1, 2, ... in that order, each once,
\* the last one being the frame of drone_index; a playback that a tick has
\* ended has emitted one frame for each of the N path points; drone_index
\* neither decreases nor skips a value; once the timer is stopped no tick
\* can fire.
C18_FramesInOrder ==
  /\ [](\A i \in 1..Len(emitted) : emitted[i] = i - 1)
  /\ [](playing => Len(emitted) = drone_index + 1)
  /\ []((last = "on_timer" /\ ~timer_active /\ hasPath)
          => (Len(emitted) = Len(path_points)
              /\ drone_index = Len(path_points) - 1))
  /\ [][last' \notin {"startAnimation", "mousePressEvent", "setImage"}
          => (drone_index' = drone_index \/ drone_index' = drone_index + 1)]_vars
  /\ [](~timer_active => ~ENABLED (Tick /\ UNCHANGED interacting))

\* A playback over a finished stroke of full length has run to its end.
C18_Witness ==
  /\ last = "on_timer"
  /\ ~drawing
  /\ ~playing
  /\ ~timer_active
  /\ Len(path_points) = MaxLen
  /\ Len(emitted) = MaxLen
  /\ emitted[MaxLen] = MaxLen - 1

\* C19: the timer is active if and only if playing is true, in every
\* reachable state.
C19_TimerAgreesWithPlaying ==
  timer_active <=> playing

\* C20: a frame is emitted only by startAnimation or by a tick taken while
\* playing is true; while playing is false nothing but startAnimation emits
\* a frame or advances drone_index; a tick that finds fewer than 2 points
\* stops the timer and emits nothing.
C20_FramesOnlyWhilePlaying ==
  /\ [][(signal' # signal)
          => \/ last' = "startAnimation"
             \/ last' = "on_timer" /\ playing]_vars
  /\ [][(~playing /\ last' # "startAnimation")
          => (UNCHANGED signal /\ drone_index' <= drone_index)]_vars
  /\ [][(last' = "on_timer" /\ ~hasPath)
          => (~playing' /\ ~timer_active' /\ UNCHANGED signal
              /\ drone_index' = drone_index)]_vars

\* A raster was loaded during a playback and the next tick, finding no path,
\* has stopped the timer; the last frame is still the one of the old raster.
C20_Witness ==
  /\ last = "on_timer"
  /\ hasImage
  /\ path_points = <<>>
  /\ ~timer_active
  /\ ~playing
  /\ Len(emitted) >= 2
  /\ crop.image # image.id

====
